---- MODULE Spec2Model ----
(***************************************************************************)
(* powar (src/src/main.rs): lists /sys/class/power_supply, keeps the       *)
(* entries whose `type` is "Battery", prints one line per battery and an   *)
(* estimate of the combined runtime.                                       *)
(*                                                                         *)
(* File contents are sequences of one-character strings, so that trimming  *)
(* and parsing work on characters.  Numbers that may exceed TLC's integers *)
(* (u64 milliseconds, hours) are sequences of bits, most significant bit   *)
(* first, without leading zeros (<<>> is zero).  An f64 is a sign, such a  *)
(* bit sequence m and an exponent e, denoting m * 2^e, and every f64       *)
(* operation rounds its exact result to 53 significant bits, ties to even. *)
(***************************************************************************)
EXTENDS Integers, Sequences, FiniteSets, TLC

VARIABLES
    \* ---- the run of main() ----
    dir_ok,        \* whether /sys/class/power_supply can be listed
    dir,           \* the entries in the directory
    fs,            \* fs[entry][prop]: the attribute files
    changes,       \* number of changes the OS made to the files so far
    pc,            \* position of main()
    listing,       \* the entries in the order read_dir yields them
    idx,           \* position of the running iterator
    batteries,     \* main's `batteries`
    percent,       \* bat.percent() of the line being formatted
    total_energy,  \* the fold of combined_runtime, energy_now
    total_power,   \* the fold of combined_runtime, power_now
    runtime,       \* the Duration combined_runtime returned
    stdout,        \* the lines printed so far
    panic,         \* the message of the panic that aborted the run
    log,           \* history: every read_prop call and its result
    \* ---- one call of read_prop on one file ----
    p_pc, p_file, p_kind, p_res,
    \* ---- one call of format_time on one duration ----
    t_pc, t_in, t_d, t_out

mainVars == <<dir_ok, dir, fs, changes, pc, listing, idx, batteries, percent,
              total_energy, total_power, runtime, stdout, panic, log>>
propVars == <<p_pc, p_file, p_kind, p_res>>
timeVars == <<t_pc, t_in, t_d, t_out>>
vars == <<mainVars, propVars, timeVars>>

(***************************************************************************)
(* Bounds of the model.                                                    *)
(***************************************************************************)
MaxChanges == 1    \* changes the OS makes to the attribute files in one run
MaxPad == 2        \* whitespace characters put before and after a content
MaxHours == 2      \* whole hours of the durations given to format_time

(***************************************************************************)
(* Text.                                                                   *)
(***************************************************************************)
RECURSIVE Join(_)
Join(s) == IF s = <<>> THEN "" ELSE Head(s) \o Join(Tail(s))

WhiteSpace == {" ", "\t", "\n", "\r"}

\* mutant of trim_right: str::trim, which strips both ends
RECURSIVE trim(_)
trim(s) ==
    IF s = <<>> THEN s
    ELSE IF Head(s) \in WhiteSpace THEN trim(Tail(s))
    ELSE IF s[Len(s)] \in WhiteSpace THEN trim(SubSeq(s, 1, Len(s) - 1))
    ELSE s

\* str::trim_right
RECURSIVE trim_right(_)
trim_right(s) ==
    IF s = <<>> THEN s
    ELSE IF s[Len(s)] \in WhiteSpace THEN trim_right(SubSeq(s, 1, Len(s) - 1))
    ELSE s

Digits == <<"0", "1", "2", "3", "4", "5", "6", "7", "8", "9">>

IsDigit(c) == \E d \in 1..10 : Digits[d] = c

\* char::to_digit(10)
to_digit(c) == (CHOOSE d \in 1..10 : Digits[d] = c) - 1

(***************************************************************************)
(* Result<T, E>.                                                           *)
(***************************************************************************)
Ok(v) == [ok |-> TRUE, val |-> v, err |-> "none"]
Err(e) == [ok |-> FALSE, val |-> <<>>, err |-> e]

\* mutant of From_ParseIntError: the cause is kept
From_ParseIntError_cause(e) == e

\* struct PowerError and its From impls: every cause becomes the unit value
PowerError == "PowerError"
From_ParseFloatError(e) == PowerError
From_ParseIntError(e) == PowerError
From_ParseError(e) == PowerError
From_io_Error(e) == PowerError

(***************************************************************************)
(* FromStr for the three types read_prop is used at.                       *)
(***************************************************************************)
\* <String as FromStr>::from_str never fails
parse_String(s) == Ok(s)

I8_MIN == -128
I8_MAX == 127

\* the digit loop of <i8 as FromStr>::from_str: checked_mul, then checked_add
\* (checked_sub for a negative literal)
RECURSIVE i8_digits(_, _, _)
i8_digits(s, acc, positive) ==
    IF s = <<>> THEN Ok(acc)
    ELSE IF ~IsDigit(Head(s)) THEN Err("InvalidDigit")
    ELSE LET mul == acc * 10
             nxt == IF positive THEN mul + to_digit(Head(s))
                    ELSE mul - to_digit(Head(s))
         IN  IF mul < I8_MIN \/ mul > I8_MAX \/ nxt < I8_MIN \/ nxt > I8_MAX
             THEN Err(IF positive THEN "PosOverflow" ELSE "NegOverflow")
             ELSE i8_digits(Tail(s), nxt, positive)

parse_i8(s) ==
    IF s = <<>> THEN Err("Empty")
    ELSE IF Head(s) \in {"+", "-"} /\ Len(s) = 1 THEN Err("InvalidDigit")
    ELSE IF Head(s) = "+" THEN i8_digits(Tail(s), 0, TRUE)
    ELSE IF Head(s) = "-" THEN i8_digits(Tail(s), 0, FALSE)
    ELSE i8_digits(s, 0, TRUE)

\* the value of a string of decimal digits
RECURSIVE dec_value(_, _)
dec_value(s, acc) ==
    IF s = <<>> THEN acc ELSE dec_value(Tail(s), acc * 10 + to_digit(Head(s)))

\* <f64 as FromStr>::from_str on the contents the model uses: an optionally
\* signed string of decimal digits is that integer (exactly representable,
\* being below 2^53), and a string with a character that is no digit, or no
\* digit at all, is an error.  The contents of the model hold no '.', no
\* exponent and no "inf"/"nan" spelling.
parse_f64(s) ==
    LET signed == s # <<>> /\ Head(s) \in {"+", "-"}
        body == IF signed THEN Tail(s) ELSE s
    IN  IF s = <<>> THEN Err("Empty")
        ELSE IF body = <<>> \/ \E i \in 1..Len(body) : ~IsDigit(body[i])
        THEN Err("Invalid")
        ELSE Ok(IF Head(s) = "-" THEN 0 - dec_value(body, 0)
                ELSE dec_value(body, 0))

(***************************************************************************)
(* Attribute files and PowerSupply::read_prop.                             *)
(***************************************************************************)
File(data) == [st |-> "ok", data |-> data]
NoFile == [st |-> "missing", data |-> <<>>]       \* File::open fails
BadFile == [st |-> "unreadable", data |-> <<>>]   \* read_to_string fails

parse(T, s) ==
    CASE T = "String" -> parse_String(s)
      [] T = "i8" -> parse_i8(s)
      [] T = "f64" -> parse_f64(s)

From(T, e) ==
    CASE T = "String" -> From_ParseError(e)
      [] T = "i8" -> From_ParseIntError(e)
      [] T = "f64" -> From_ParseFloatError(e)

read_prop(T, file) ==
    IF file.st = "missing" THEN Err(From_io_Error("NotFound"))
    ELSE IF file.st = "unreadable" THEN Err(From_io_Error("InvalidData"))
    ELSE LET r == parse(T, trim_right(file.data))
         IN  IF r.ok THEN r ELSE Err(From(T, r.err))

Battery == <<"B", "a", "t", "t", "e", "r", "y">>

\* mutant of is_battery: starts_with instead of ==
is_battery_prefix(file) ==
    LET r == read_prop("String", file)
    IN  IF r.ok
        THEN Ok(Len(r.val) >= Len(Battery)
                /\ SubSeq(r.val, 1, Len(Battery)) = Battery)
        ELSE r

\* PowerSupply::is_battery, percent, status
is_battery(file) ==
    LET r == read_prop("String", file)
    IN  IF r.ok THEN Ok(r.val = Battery) ELSE r
percent_of(file) == read_prop("i8", file)
status_of(file) == read_prop("String", file)

(***************************************************************************)
(* Naturals of any size: limbs in base 2^15, most significant first, no    *)
(* leading zero limb (<<>> is zero).                                       *)
(***************************************************************************)
Base == 2^15

RECURSIVE Strip(_)
Strip(b) == IF b # <<>> /\ Head(b) = 0 THEN Strip(Tail(b)) ELSE b

RECURSIVE BigFromNat(_)
BigFromNat(n) ==
    IF n = 0 THEN <<>> ELSE Append(BigFromNat(n \div Base), n % Base)

RECURSIVE BigToNat(_)
BigToNat(b) ==
    IF b = <<>> THEN 0
    ELSE Base * BigToNat(SubSeq(b, 1, Len(b) - 1)) + b[Len(b)]

\* b * c + carry for c <= Base: from the last limb
RECURSIVE MulCarry(_, _, _)
MulCarry(b, c, carry) ==
    IF b = <<>> THEN BigFromNat(carry)
    ELSE LET p == b[Len(b)] * c + carry
         IN  Append(MulCarry(SubSeq(b, 1, Len(b) - 1), c, p \div Base),
                    p % Base)

BigMulAdd(b, c, a) == Strip(MulCarry(b, c, a))
BigMulSmall(b, c) == BigMulAdd(b, c, 0)

\* b / c and b % c for c <= Base: long division from the first limb
RECURSIVE DivRem(_, _, _, _)
DivRem(b, c, q, r) ==
    IF b = <<>> THEN [q |-> Strip(q), r |-> r]
    ELSE LET r2 == r * Base + Head(b)
         IN  DivRem(Tail(b), c, Append(q, r2 \div c), r2 % c)

BigDivSmall(b, c) == DivRem(b, c, <<>>, 0)

\* b + 1
RECURSIVE BigInc(_)
BigInc(b) ==
    IF b = <<>> THEN <<1>>
    ELSE IF b[Len(b)] < Base - 1
    THEN Append(SubSeq(b, 1, Len(b) - 1), b[Len(b)] + 1)
    ELSE Append(BigInc(SubSeq(b, 1, Len(b) - 1)), 0)

\* a - b for a >= b: from the last limb, with a borrow
RECURSIVE SubBorrow(_, _, _)
SubBorrow(a, b, borrow) ==
    IF a = <<>> THEN <<>>
    ELSE LET x == a[Len(a)]
             y == (IF b = <<>> THEN 0 ELSE b[Len(b)]) + borrow
             rest == IF b = <<>> THEN b ELSE SubSeq(b, 1, Len(b) - 1)
         IN  Append(SubBorrow(SubSeq(a, 1, Len(a) - 1), rest,
                              IF x < y THEN 1 ELSE 0),
                    IF x < y THEN x + Base - y ELSE x - y)

BigSub(a, b) == Strip(SubBorrow(a, b, 0))

RECURSIVE ZeroLimbs(_)
ZeroLimbs(n) == IF n <= 0 THEN <<>> ELSE Append(ZeroLimbs(n - 1), 0)

\* the number of bits of b
BitLen(b) ==
    IF b = <<>> THEN 0
    ELSE 15 * (Len(b) - 1) + (CHOOSE k \in 1..15 : 2^(k-1) <= Head(b) /\ Head(b) < 2^k)

IsOdd(b) == b # <<>> /\ b[Len(b)] % 2 = 1

\* b * 2^k
ShiftLeft(b, k) ==
    IF b = <<>> THEN b ELSE BigMulSmall(b, 2^(k % 15)) \o ZeroLimbs(k \div 15)

\* q = b / 2^k, and s: whether a bit that is set was shifted out
ShiftRight(b, k) ==
    LET whole == k \div 15
    IN  IF whole >= Len(b) THEN [q |-> <<>>, s |-> b # <<>>]
        ELSE LET d == BigDivSmall(SubSeq(b, 1, Len(b) - whole), 2^(k % 15))
             IN  [q |-> d.q,
                  s |-> d.r # 0 \/ \E i \in (Len(b) - whole + 1)..Len(b) :
                                        b[i] # 0]

\* the decimal digits of b, as {} of format! prints an integer
RECURSIVE DecDigits(_)
DecDigits(b) ==
    IF b = <<>> THEN ""
    ELSE LET d == BigDivSmall(b, 10) IN DecDigits(d.q) \o Digits[d.r + 1]

BigToDec(b) == IF b = <<>> THEN "0" ELSE DecDigits(b)

(***************************************************************************)
(* f64: k is "fin", "inf" or "nan"; a finite value is (-1)^neg * m * 2^e.  *)
(***************************************************************************)
F64_MANTISSA_DIGITS == 53
U64_BITS == 64

NaN == [k |-> "nan", neg |-> FALSE, m |-> <<>>, e |-> 0]
Inf(neg) == [k |-> "inf", neg |-> neg, m |-> <<>>, e |-> 0]
Fin(neg, m, e) == [k |-> "fin", neg |-> neg, m |-> m, e |-> e]

\* round to nearest, ties to even, at 53 significant bits
Round53(neg, m, e) ==
    IF BitLen(m) <= F64_MANTISSA_DIGITS THEN Fin(neg, m, e)
    ELSE LET drop == BitLen(m) - F64_MANTISSA_DIGITS
             s1 == ShiftRight(m, drop - 1)
             guard == IsOdd(s1.q)
             keep == ShiftRight(s1.q, 1).q
             up == guard /\ (s1.s \/ IsOdd(keep))
         IN  Fin(neg, IF up THEN BigInc(keep) ELSE keep, e + drop)

\* acc + r / y to at least 55 significant bits, four bits a step, and a last
\* bit that says whether anything is left: enough to round at 53.
\* (r * 16 stays an integer of TLC for y < 2^27.)
RECURSIVE QuotientBits(_, _, _, _)
QuotientBits(r, y, acc, nfrac) ==
    IF BitLen(acc) >= F64_MANTISSA_DIGITS + 2
    THEN [m |-> BigMulAdd(acc, 2, IF r = 0 THEN 0 ELSE 1), e |-> 0 - (nfrac + 1)]
    ELSE QuotientBits((r * 16) % y, y, BigMulAdd(acc, 16, (r * 16) \div y),
                      nfrac + 4)

Abs(n) == IF n < 0 THEN 0 - n ELSE n

\* x / y in f64, for integer-valued x and y (y is never -0.0: a fold that
\* starts at 0f64 cannot produce it)
F64Div(x, y) ==
    IF y = 0 THEN (IF x = 0 THEN NaN ELSE Inf(x < 0))
    ELSE IF x = 0 THEN Fin(y < 0, <<>>, 0)
    ELSE LET q == QuotientBits(Abs(x) % Abs(y), Abs(y),
                               BigFromNat(Abs(x) \div Abs(y)), 0)
         IN  Round53((x < 0) # (y < 0), q.m, q.e)

\* x * c in f64, for a small positive integer c
F64MulSmall(x, c) ==
    IF x.k # "fin" THEN x ELSE Round53(x.neg, BigMulSmall(x.m, c), x.e)

\* trunc(|x|) of a finite x
Trunc(x) ==
    IF x.e >= 0 THEN ShiftLeft(x.m, x.e) ELSE ShiftRight(x.m, 0 - x.e).q

U64_MAX == BigSub(ShiftLeft(<<1>>, U64_BITS), <<1>>)

\* `x as u64`: the results a build can produce.  A value in 0 .. u64::MAX is
\* truncated toward zero.  For NaN, an infinity, a negative value or a value
\* above u64::MAX the cast saturates (NaN to 0) with rustc >= 1.45, and was
\* undefined behaviour before: 2^63 (what cvttsd2si answers) and 0 stand for
\* the results of such a build.
as_u64(x) ==
    LET inRange == /\ x.k = "fin"
                   /\ BitLen(x.m) + x.e <= U64_BITS
                   /\ (~x.neg \/ Trunc(x) = <<>>)
        saturated == IF x.k = "nan" \/ x.neg THEN <<>> ELSE U64_MAX
    IN  IF inRange THEN {Trunc(x)}
        ELSE {saturated, ShiftLeft(<<1>>, U64_BITS - 1), <<>>}

(***************************************************************************)
(* Duration, combined_runtime's arithmetic and format_time.                *)
(***************************************************************************)
\* Duration::from_millis
from_millis(ms) ==
    LET d == BigDivSmall(ms, 1000)
    IN  [secs |-> d.q, nanos |-> d.r * 1000000]

as_secs(d) == d.secs

\* mutant of runtime_ms: one factor of 60 is missing
runtime_ms_minutes(energy, power) ==
    F64MulSmall(F64MulSmall(F64Div(energy, power), 60), 1000)

\* lines 119-120: total_energy / total_power, then * 60f64 * 60f64 * 1000f64
runtime_hours(energy, power) == F64Div(energy, power)
runtime_ms(energy, power) ==
    F64MulSmall(F64MulSmall(F64MulSmall(runtime_hours(energy, power), 60), 60),
                1000)

\* line 121: the durations combined_runtime can return for these totals
combined_runtime(energy, power) ==
    {from_millis(ms) : ms \in as_u64(runtime_ms(energy, power))}

\* mutant of format_time: the minutes are rounded to the nearest
format_time_rounded(d) ==
    LET seconds == as_secs(d)
        hours == BigDivSmall(seconds, 3600).q
        left == BigSub(seconds, BigMulSmall(hours, 3600))
        minutes == BigDivSmall(BigMulAdd(left, 1, 30), 60).q
    IN  BigToDec(hours) \o "h" \o BigToDec(minutes) \o "m"

format_time(d) ==
    LET seconds == as_secs(d)
        hours == BigDivSmall(seconds, 3600).q
        left == BigSub(seconds, BigMulSmall(hours, 3600))
        minutes == BigDivSmall(left, 60).q
    IN  BigToDec(hours) \o "h" \o BigToDec(minutes) \o "m"

(***************************************************************************)
(* The power-supply directory.                                             *)
(***************************************************************************)
Names == {"AC", "BAT0", "BAT1"}
Props == {"type", "capacity", "status", "energy_now", "power_now"}

NL == <<"\n">>
Mains == <<"M", "a", "i", "n", "s">>
Discharging == <<"D", "i", "s", "c", "h", "a", "r", "g", "i", "n", "g">>
Full == <<"F", "u", "l", "l">>

\* the files as the run finds them when nothing else is said: a mains
\* adapter and the two batteries of the end-to-end scenario
InitialFiles ==
    [n \in Names |->
        CASE n = "AC" ->
               [p \in Props |-> IF p = "type" THEN File(Mains \o NL) ELSE NoFile]
          [] n = "BAT0" ->
               [p \in Props |->
                   CASE p = "type" -> File(Battery \o NL)
                     [] p = "capacity" -> File(<<"5", "0">> \o NL)
                     [] p = "status" -> File(Discharging \o NL)
                     [] p = "energy_now" ->
                          File(<<"3", "0", "0", "0", "0", "0", "0", "0">> \o NL)
                     [] p = "power_now" ->
                          File(<<"1", "5", "0", "0", "0", "0", "0", "0">> \o NL)]
          [] n = "BAT1" ->
               [p \in Props |->
                   CASE p = "type" -> File(Battery \o NL)
                     [] p = "capacity" -> File(<<"8", "0">> \o NL)
                     [] p = "status" -> File(Discharging \o NL)
                     [] p = "energy_now" ->
                          File(<<"4", "0", "0", "0", "0", "0", "0", "0">> \o NL)
                     [] p = "power_now" ->
                          File(<<"1", "0", "0", "0", "0", "0", "0", "0">> \o NL)]]

\* what the OS may turn an attribute file into; a mains adapter has no
\* attribute of a battery
Changed(n, p) ==
    CASE p = "type" -> {File(Battery \o NL), File(Mains \o NL), NoFile}
      [] p # "type" /\ n = "AC" -> {}
      [] p = "capacity" -> {File(<<" ", "8", "7">> \o NL)}
      [] p = "status" -> {BadFile}
      [] p = "energy_now" ->
           {File(<<"1", "2", "3", "0", "0", "0", "0", "0", "0">> \o NL), NoFile}
      [] p = "power_now" -> {File(<<"0">> \o NL), File(<<"x">> \o NL)}

\* the orders in which read_dir may yield the entries of d
RECURSIVE Orders(_)
Orders(d) ==
    IF d = {} THEN {<<>>}
    ELSE UNION {{<<n>> \o o : o \in Orders(d \ {n})} : n \in d}

(***************************************************************************)
(* main().                                                                 *)
(***************************************************************************)
\* {} of format! for an i8
RECURSIVE fmt_nat(_)
fmt_nat(n) ==
    IF n < 10 THEN Digits[n + 1] ELSE fmt_nat(n \div 10) \o Digits[(n % 10) + 1]
fmt_i8(n) == IF n < 0 THEN "-" \o fmt_nat(0 - n) ELSE fmt_nat(n)

\* mutant of BatteryLine: the percentage and the status change places
BatteryLine_swapped(name, pct, status) ==
    [tag |-> "battery",
     text |-> name \o ": " \o Join(status) \o "% (" \o fmt_i8(pct) \o ")"]

BatteryLine(name, pct, status) ==
    [tag |-> "battery",
     text |-> name \o ": " \o fmt_i8(pct) \o "% (" \o Join(status) \o ")"]
SummaryLine(text) ==
    [tag |-> "summary", text |-> "Estimated runtime (all batteries): " \o text]

\* one read_prop call, as the history keeps it
Read(entry, prop, res) ==
    [entry |-> entry, prop |-> prop, file |-> fs[entry][prop], res |-> res,
     out |-> Len(stdout), at |-> changes]

\* mutant of Expect: the error is dropped and the run goes on
Expect_ignored(msg, res) ==
    /\ pc' = pc
    /\ panic' = panic

\* .expect(msg) on an Err: the thread panics and the process ends
Expect(msg, res) ==
    /\ pc' = "aborted"
    /\ panic' = msg \o ": " \o res.err

\* mutant of AfterFilter: combined_runtime is called before the report loop
AfterFilter_runtime_first(bats) == IF bats = <<>> THEN "summary" ELSE "energy"

\* the phase after the filter has seen every entry, and so on: an iterator
\* over nothing ends at once
AfterFilter(bats) == IF bats = <<>> THEN "summary" ELSE "percent"
AfterEnergy(bats) == IF bats = <<>> THEN "summary" ELSE "power"

\* the OS changes an attribute file of an entry; the run does not notice
FsChange ==
    /\ changes < MaxChanges
    /\ pc \notin {"done", "aborted"}
    /\ \E n \in dir, p \in Props : \E f \in Changed(n, p) :
          /\ f # fs[n][p]
          /\ fs' = [fs EXCEPT ![n][p] = f]
    /\ changes' = changes + 1
    /\ UNCHANGED <<propVars, timeVars>>
    /\ UNCHANGED <<dir_ok, dir, pc, listing, idx, batteries, percent,
                   total_energy, total_power, runtime, stdout, panic, log>>

\* line 15: fs::read_dir(POWER_PATH).expect("can't list batteries")
ListDir ==
    /\ pc = "start"
    /\ IF ~dir_ok
       THEN /\ Expect("can't list batteries", Err("NotFound"))
            /\ UNCHANGED <<listing, idx>>
       ELSE /\ listing' \in Orders(dir)
            /\ idx' = 1
            /\ pc' = IF listing' = <<>> THEN AfterFilter(<<>>) ELSE "filter"
            /\ UNCHANGED panic
    /\ UNCHANGED <<propVars, timeVars>>
    /\ UNCHANGED <<dir_ok, dir, fs, changes, batteries, percent, total_energy,
                   total_power, runtime, stdout, log>>

\* lines 16-18: the filter closure on the next entry, and collect
Filter ==
    /\ pc = "filter"
    /\ LET entry == listing[idx]
           res == is_battery(fs[entry]["type"])
           bats == IF res.ok /\ res.val THEN Append(batteries, entry)
                   ELSE batteries
       IN  /\ log' = Append(log, Read(entry, "type", res))
           /\ IF ~res.ok
              THEN /\ Expect("can't list batteries", res)
                   /\ UNCHANGED <<idx, batteries>>
              ELSE /\ batteries' = bats
                   /\ idx' = IF idx = Len(listing) THEN 1 ELSE idx + 1
                   /\ pc' = IF idx = Len(listing) THEN AfterFilter(bats)
                            ELSE "filter"
                   /\ UNCHANGED panic
    /\ UNCHANGED <<propVars, timeVars>>
    /\ UNCHANGED <<dir_ok, dir, fs, changes, listing, percent, total_energy,
                   total_power, runtime, stdout>>

\* line 23: bat.percent().expect(..), the second argument of println!
ReadPercent ==
    /\ pc = "percent"
    /\ LET bat == batteries[idx]
           res == percent_of(fs[bat]["capacity"])
       IN  /\ log' = Append(log, Read(bat, "capacity", res))
           /\ IF ~res.ok
              THEN /\ Expect("Could not read battery", res)
                   /\ UNCHANGED percent
              ELSE /\ percent' = res.val
                   /\ pc' = "status"
                   /\ UNCHANGED panic
    /\ UNCHANGED <<propVars, timeVars>>
    /\ UNCHANGED <<dir_ok, dir, fs, changes, listing, idx, batteries,
                   total_energy, total_power, runtime, stdout>>

\* mutant of ReadStatusAndPrint: the line is written in two pieces, its
\* beginning before the status is read
PrintThenReadStatus ==
    /\ pc = "status"
    /\ LET bat == batteries[idx]
           res == status_of(fs[bat]["status"])
       IN  /\ log' = Append(log, Read(bat, "status", res))
           /\ IF ~res.ok
              THEN /\ Expect("Could not read battery", res)
                   /\ stdout' = Append(stdout, BatteryLine(bat, percent, <<>>))
                   /\ UNCHANGED idx
              ELSE /\ stdout' = Append(stdout, BatteryLine(bat, percent, res.val))
                   /\ idx' = IF idx = Len(batteries) THEN 1 ELSE idx + 1
                   /\ pc' = IF idx = Len(batteries) THEN "energy" ELSE "percent"
                   /\ UNCHANGED panic
    /\ UNCHANGED <<propVars, timeVars>>
    /\ UNCHANGED <<dir_ok, dir, fs, changes, listing, batteries, percent,
                   total_energy, total_power, runtime>>

\* lines 21-24: bat.status().expect(..), then println! writes the line
ReadStatusAndPrint ==
    /\ pc = "status"
    /\ LET bat == batteries[idx]
           res == status_of(fs[bat]["status"])
       IN  /\ log' = Append(log, Read(bat, "status", res))
           /\ IF ~res.ok
              THEN /\ Expect("Could not read battery", res)
                   /\ UNCHANGED <<idx, stdout>>
              ELSE /\ stdout' = Append(stdout, BatteryLine(bat, percent, res.val))
                   /\ idx' = IF idx = Len(batteries) THEN 1 ELSE idx + 1
                   /\ pc' = IF idx = Len(batteries) THEN "energy" ELSE "percent"
                   /\ UNCHANGED panic
    /\ UNCHANGED <<propVars, timeVars>>
    /\ UNCHANGED <<dir_ok, dir, fs, changes, listing, batteries, percent,
                   total_energy, total_power, runtime>>

\* lines 113-115: the next energy_now of the first fold
ReadEnergy ==
    /\ pc = "energy"
    /\ LET bat == batteries[idx]
           res == read_prop("f64", fs[bat]["energy_now"])
       IN  /\ log' = Append(log, Read(bat, "energy_now", res))
           /\ IF ~res.ok
              THEN /\ Expect("Could not read battery", res)
                   /\ UNCHANGED <<idx, total_energy>>
              ELSE /\ total_energy' = total_energy + res.val
                   /\ idx' = IF idx = Len(batteries) THEN 1 ELSE idx + 1
                   /\ pc' = IF idx = Len(batteries) THEN AfterEnergy(batteries)
                            ELSE "energy"
                   /\ UNCHANGED panic
    /\ UNCHANGED <<propVars, timeVars>>
    /\ UNCHANGED <<dir_ok, dir, fs, changes, listing, batteries, percent,
                   total_power, runtime, stdout>>

\* lines 116-118: the next power_now of the second fold
ReadPower ==
    /\ pc = "power"
    /\ LET bat == batteries[idx]
           res == read_prop("f64", fs[bat]["power_now"])
       IN  /\ log' = Append(log, Read(bat, "power_now", res))
           /\ IF ~res.ok
              THEN /\ Expect("Could not read battery", res)
                   /\ UNCHANGED <<idx, total_power>>
              ELSE /\ total_power' = total_power + res.val
                   /\ idx' = IF idx = Len(batteries) THEN 1 ELSE idx + 1
                   /\ pc' = IF idx = Len(batteries) THEN "summary" ELSE "power"
                   /\ UNCHANGED panic
    /\ UNCHANGED <<propVars, timeVars>>
    /\ UNCHANGED <<dir_ok, dir, fs, changes, listing, batteries, percent,
                   total_energy, runtime, stdout>>

\* lines 119-121 and 26-27: the rest of combined_runtime, format_time, println!
Summary ==
    /\ pc = "summary"
    /\ \E d \in combined_runtime(total_energy, total_power) :
          /\ runtime' = d
          /\ stdout' = Append(stdout, SummaryLine(format_time(d)))
    /\ pc' = "done"
    /\ UNCHANGED <<propVars, timeVars>>
    /\ UNCHANGED <<dir_ok, dir, fs, changes, listing, idx, batteries, percent,
                   total_energy, total_power, panic, log>>

NoDuration == [secs |-> <<>>, nanos |-> 0]

MainInit ==
    /\ dir_ok \in BOOLEAN
    /\ dir \in SUBSET Names
    /\ ~dir_ok => dir = {}
    /\ fs = InitialFiles
    /\ changes = 0
    /\ pc = "start"
    /\ listing = <<>>
    /\ idx = 1
    /\ batteries = <<>>
    /\ percent = 0
    /\ total_energy = 0
    /\ total_power = 0
    /\ runtime = NoDuration
    /\ stdout = <<>>
    /\ panic = ""
    /\ log = <<>>

\* the variables of a part that a specification leaves out
MainIdle ==
    /\ dir_ok = TRUE /\ dir = {} /\ fs = InitialFiles /\ changes = 0
    /\ pc = "idle" /\ listing = <<>> /\ idx = 1 /\ batteries = <<>>
    /\ percent = 0 /\ total_energy = 0 /\ total_power = 0
    /\ runtime = NoDuration /\ stdout = <<>> /\ panic = "" /\ log = <<>>
PropIdle ==
    p_pc = "idle" /\ p_file = NoFile /\ p_kind = "none" /\ p_res = Err("none")
NoInput == [kind |-> "none", a |-> 0, b |-> 1]
TimeIdle ==
    t_pc = "idle" /\ t_in = NoInput /\ t_d = NoDuration /\ t_out = ""

Init == MainInit /\ PropIdle /\ TimeIdle

Next ==
    \/ FsChange
    \/ ListDir
    \/ Filter
    \/ ReadPercent
    \/ ReadStatusAndPrint
    \/ ReadEnergy
    \/ ReadPower
    \/ Summary

Spec == Init /\ [][Next]_vars

(***************************************************************************)
(* read_prop and the three methods on one file, for every content made of  *)
(* a word between two runs of whitespace.                                  *)
(***************************************************************************)
PadChars == {" ", "\n"}

RECURSIVE Pads(_)
Pads(n) ==
    IF n = 0 THEN {<<>>}
    ELSE Pads(n - 1) \cup {<<c>> \o w : c \in PadChars, w \in Pads(n - 1)}

Words ==
    {<<>>, Battery, Mains, Full,
     <<"b", "a", "t", "t", "e", "r", "y">>,
     <<"B", "a", "t", "t", "e", "r">>,
     <<"B", "a", "t", "t", "e", "r", "y", "y">>,
     <<"B", "a", "t", " ", "t", "e", "r", "y">>,
     <<"B", "a", "t", "t", "e", "r", "y", "\t", "\r">>,
     <<"0">>, <<"8", "7">>, <<"8", "7", "\t">>, <<"8", " ", "7">>,
     <<"0", "0", "8", "7">>, <<"+", "8", "7">>, <<"-", "8", "7">>,
     <<"1", "2", "7">>, <<"1", "2", "8">>, <<"-", "1", "2", "8">>,
     <<"-", "1", "2", "9">>, <<"-", "0">>, <<"+">>, <<"-">>, <<"8", "x">>,
     <<"8", "7", "-">>, <<"3", "0", "0", "0", "0", "0", "0", "0">>}

Contents == {l \o w \o r : l \in Pads(MaxPad), w \in Words, r \in Pads(MaxPad)}

PropInit ==
    /\ p_pc = "call"
    /\ p_file \in {File(c) : c \in Contents} \cup {NoFile, BadFile}
    /\ p_kind \in {"is_battery", "percent", "status", "f64"}
    /\ p_res = Err("none")

Return(res) ==
    /\ p_res' = res
    /\ p_pc' = "returned"
    /\ UNCHANGED <<p_file, p_kind, mainVars, timeVars>>

CallIsBattery == p_pc = "call" /\ p_kind = "is_battery" /\ Return(is_battery(p_file))
CallPercent == p_pc = "call" /\ p_kind = "percent" /\ Return(percent_of(p_file))
CallStatus == p_pc = "call" /\ p_kind = "status" /\ Return(status_of(p_file))
CallReadF64 == p_pc = "call" /\ p_kind = "f64" /\ Return(read_prop("f64", p_file))

PropNext ==
    \/ CallIsBattery
    \/ CallPercent
    \/ CallStatus
    \/ CallReadF64

PropSpecInit == MainIdle /\ PropInit /\ TimeIdle

SpecProp == PropSpecInit /\ [][PropNext]_vars

(***************************************************************************)
(* format_time on durations made from milliseconds and from hours.         *)
(***************************************************************************)
MsInputs ==
    {h * 3600000 + m * 60000 + sec * 1000 + f :
        h \in 0..MaxHours, m \in {0, 1, 29, 30, 59}, sec \in {0, 24, 30, 59},
        f \in {0, 500, 999}}

TimeInit ==
    /\ t_pc = "input"
    /\ t_in \in {[kind |-> "ms", a |-> ms, b |-> 1] : ms \in MsInputs}
                \cup {[kind |-> "hours", a |-> n, b |-> 100] :
                         n \in 0..(100 * (MaxHours + 1))}
    /\ t_d = NoDuration
    /\ t_out = ""

\* Duration::from_millis(a)
FromMillis ==
    /\ t_pc = "input" /\ t_in.kind = "ms"
    /\ t_d' = from_millis(BigFromNat(t_in.a))
    /\ t_pc' = "duration"
    /\ UNCHANGED <<t_in, t_out, mainVars, propVars>>

\* lines 119-121 of combined_runtime for a / b hours
FromHours ==
    /\ t_pc = "input" /\ t_in.kind = "hours"
    /\ t_d' \in combined_runtime(t_in.a, t_in.b)
    /\ t_pc' = "duration"
    /\ UNCHANGED <<t_in, t_out, mainVars, propVars>>

FormatTime ==
    /\ t_pc = "duration"
    /\ t_out' = format_time(t_d)
    /\ t_pc' = "formatted"
    /\ UNCHANGED <<t_in, t_d, mainVars, propVars>>

TimeNext ==
    \/ FromMillis
    \/ FromHours
    \/ FormatTime

TimeSpecInit == MainIdle /\ PropIdle /\ TimeInit

SpecTime == TimeSpecInit /\ [][TimeNext]_vars

(***************************************************************************)
(* What the claims are stated with, written without the operators above.   *)
(***************************************************************************)
\* the content without its trailing whitespace
TrailTrimmed(data) ==
    LET k == CHOOSE k \in 0..Len(data) :
                 /\ \A i \in (k + 1)..Len(data) : data[i] \in {" ", "\t", "\n", "\r"}
                 /\ k > 0 => data[k] \notin {" ", "\t", "\n", "\r"}
    IN  SubSeq(data, 1, k)

IsBatteryContent(data) == TrailTrimmed(data) = <<"B", "a", "t", "t", "e", "r", "y">>

DigitChars == {"0", "1", "2", "3", "4", "5", "6", "7", "8", "9"}
DigitOf(c) == CHOOSE d \in 0..9 : ToString(d) = c

\* an optional sign, then digits only and at least one
IsLiteral(s) ==
    LET body == IF s # <<>> /\ s[1] \in {"+", "-"} THEN Tail(s) ELSE s
    IN  body # <<>> /\ \A i \in 1..Len(body) : body[i] \in DigitChars

RECURSIVE PlaceSum(_, _)
PlaceSum(ds, i) ==
    IF i > Len(ds) THEN 0
    ELSE DigitOf(ds[i]) * 10^(Len(ds) - i) + PlaceSum(ds, i + 1)

LiteralValue(s) ==
    IF s[1] = "-" THEN 0 - PlaceSum(Tail(s), 1)
    ELSE IF s[1] = "+" THEN PlaceSum(Tail(s), 1)
    ELSE PlaceSum(s, 1)

\* the reads of the run so far that asked for prop
ReadsOf(prop) == SelectSeq(log, LAMBDA r : r.prop = prop)

RECURSIVE SumOf(_)
SumOf(reads) == IF reads = <<>> THEN 0 ELSE Head(reads).res.val + SumOf(Tail(reads))

AllReadsOk == \A i \in 1..Len(log) : log[i].res.ok

\* floor(3600000 * e / p), by exact steps that stay integers of TLC
TimesOver(x, c, p) == [q |-> x.q * c + (x.r * c) \div p, r |-> (x.r * c) % p]
ExactMs(e, p) ==
    TimesOver(TimesOver(TimesOver(TimesOver(TimesOver(
        [q |-> e \div p, r |-> e % p], 60, p), 60, p), 10, p), 10, p), 10, p).q

MsOf(d) == BigToNat(d.secs) * 1000 + d.nanos \div 1000000

LastLine == stdout[Len(stdout)]

\* the position in the log of the read of prop of entry
ReadAt(entry, prop) ==
    CHOOSE i \in 1..Len(log) : log[i].entry = entry /\ log[i].prop = prop

\* the entries of the listing whose type, as it was read, is Battery
Classified ==
    SelectSeq(listing, LAMBDA n : IsBatteryContent(log[ReadAt(n, "type")].file.data))

LineOf(n) ==
    n \o ": " \o ToString(log[ReadAt(n, "capacity")].res.val) \o "% ("
      \o Join(TrailTrimmed(log[ReadAt(n, "status")].file.data)) \o ")"

(***************************************************************************)
(* The claims.                                                             *)
(***************************************************************************)

\* C1: when the `type` file can be read, is_battery returns Ok(true) if and
\* only if the content without its trailing whitespace (and with nothing else
\* removed) is exactly "Battery", and Ok(false) for every other content.
C1_IsBatteryIffTrimmedEqualsBattery ==
    (p_pc = "returned" /\ p_kind = "is_battery" /\ p_file.st = "ok") =>
        /\ p_res.ok
        /\ p_res.val = IsBatteryContent(p_file.data)

C1_Witness ==
    /\ p_pc = "returned" /\ p_kind = "is_battery"
    /\ p_file = File(<<"B", "a", "t", "t", "e", "r", "y", " ", "\n">>)
    /\ p_res.ok /\ p_res.val

\* C7: reading `capacity` succeeds with value n if and only if the content
\* without its trailing whitespace is a decimal integer literal (optional
\* sign, digits only) that denotes n and n is in -128..127; every other
\* content, and a file that cannot be read, gives the read error.
C7_PercentIffTrimmedIsI8Literal ==
    (p_pc = "returned" /\ p_kind = "percent") =>
        LET t == TrailTrimmed(p_file.data)
        IN  IF p_file.st = "ok" /\ IsLiteral(t)
               /\ LiteralValue(t) >= -128 /\ LiteralValue(t) <= 127
            THEN p_res.ok /\ p_res.val = LiteralValue(t)
            ELSE ~p_res.ok

C7_Witness ==
    /\ p_pc = "returned" /\ p_kind = "percent"
    /\ p_file = File(<<"8", "7", "\n">>)
    /\ p_res.ok /\ p_res.val = 87

\* C9: every failed attribute read returns the same error value, whatever
\* the attribute type and whatever the cause (missing file, failed read,
\* integer or float parse failure).
C9_OneErrorValue ==
    (p_pc = "returned" /\ ~p_res.ok) => p_res.err = "PowerError"

C9_Witness ==
    /\ p_pc = "returned" /\ p_kind = "percent"
    /\ p_file = File(<<"1", "2", "8", "\n">>)
    /\ ~p_res.ok /\ p_res.err = "PowerError"

\* C3: format_time(d) is "<H>h<M>m" with H = floor(secs / 3600) and
\* M = floor((secs - 3600 * H) / 60) for the whole seconds of d: M is in
\* 0..59, 60 * H + M = floor(secs / 60), 2.5 hours gives "2h30m" and 0.99
\* hours gives "0h59m".
C3_FormatTimeTruncates ==
    t_pc = "formatted" =>
        LET secs == BigToNat(t_d.secs)
            H == secs \div 3600
            M == (secs - 3600 * H) \div 60
        IN  /\ t_out = ToString(H) \o "h" \o ToString(M) \o "m"
            /\ M \in 0..59
            /\ 60 * H + M = secs \div 60
            /\ t_in.kind = "ms" => secs = t_in.a \div 1000
            /\ (t_in.kind = "hours" /\ t_in.a = 250) => t_out = "2h30m"
            /\ (t_in.kind = "hours" /\ t_in.a = 99) => t_out = "0h59m"

C3_Witness ==
    /\ t_pc = "formatted"
    /\ t_in = [kind |-> "hours", a |-> 99, b |-> 100]
    /\ t_out = "0h59m"

\* the run ended with every read successful, at least one battery, and the
\* sums of what was read satisfy sum(Pi) > 0 and sum(Ei) >= 0
C2_Case ==
    /\ pc = "done" /\ batteries # <<>> /\ AllReadsOk
    /\ SumOf(ReadsOf("power_now")) > 0
    /\ SumOf(ReadsOf("energy_now")) >= 0

\* C2 as claimed: in that case combined_runtime returns exactly
\* floor(3600000 * sum(Ei) / sum(Pi)) milliseconds.
C2_RuntimeIsExactRatioOfSums ==
    C2_Case =>
        MsOf(runtime) = ExactMs(SumOf(ReadsOf("energy_now")),
                                SumOf(ReadsOf("power_now")))

\* C2, amended: in that case combined_runtime returns the ratio of the two
\* sums as f64 arithmetic gives it, in whole milliseconds: the exact
\* floor(3600000 * sum(Ei) / sum(Pi)) or one millisecond away from it; and
\* energies 30000000 and 40000000 with powers 15000000 and 10000000 print
\* "Estimated runtime (all batteries): 2h48m".
C2_RuntimeIsRatioOfSumsWithinOneMs ==
    C2_Case =>
        LET e == SumOf(ReadsOf("energy_now"))
            p == SumOf(ReadsOf("power_now"))
        IN  /\ MsOf(runtime) \in (ExactMs(e, p) - 1)..(ExactMs(e, p) + 1)
            /\ (e = 70000000 /\ p = 25000000) =>
                   LastLine.text = "Estimated runtime (all batteries): 2h48m"

C2_Witness ==
    /\ C2_Case
    /\ Len(batteries) = 2
    /\ SumOf(ReadsOf("energy_now")) = 70000000
    /\ SumOf(ReadsOf("power_now")) = 25000000
    /\ LastLine.text = "Estimated runtime (all batteries): 2h48m"

\* C4: when the run ends with every read successful, standard output is one
\* line "<name>: <percent>% (<status>)" for each entry classified as a
\* battery, in the order of the listing, none for another entry and none
\* twice, then the one summary line; and a summary line is never followed by
\* anything.
C4_OutputIsBatteryLinesThenSummary ==
    /\ \A i \in 1..Len(stdout) :
          stdout[i].tag = "summary" => (i = Len(stdout) /\ pc = "done")
    /\ pc = "done" =>
          /\ Len(stdout) = Len(Classified) + 1
          /\ \A i \in 1..Len(Classified) :
                /\ stdout[i].tag = "battery"
                /\ stdout[i].text = LineOf(Classified[i])
          /\ LastLine.tag = "summary"
          /\ LastLine.text =
                "Estimated runtime (all batteries): " \o format_time(runtime)

C4_Witness ==
    /\ pc = "done"
    /\ listing = <<"BAT1", "AC", "BAT0">>
    /\ Len(stdout) = 3
    /\ stdout[1].text = "BAT1: 80% (Discharging)"
    /\ stdout[2].text = "BAT0: 50% (Discharging)"
    /\ stdout[3].tag = "summary"

\* C5: a failed read ends the run in the aborted state: it is the last read
\* of the run (the entry is not skipped, no value stands in for the one not
\* read, the read is not repeated) and no summary line is printed.
C5_FailedReadIsFatal ==
    \A i \in 1..Len(log) :
        ~log[i].res.ok =>
            /\ pc = "aborted"
            /\ panic # ""
            /\ i = Len(log)
            /\ \A j \in 1..Len(stdout) : stdout[j].tag # "summary"

C5_Witness ==
    /\ pc = "aborted"
    /\ log # <<>>
    /\ log[Len(log)].prop = "power_now"
    /\ log[Len(log)].file = File(<<"x", "\n">>)
    /\ ~log[Len(log)].res.ok

\* C6 as claimed: a run that aborts has written nothing to standard output.
C6_NothingWrittenBeforeAbort ==
    pc = "aborted" => stdout = <<>>

\* C6, amended: a run that aborts has written no summary line; it has
\* written nothing when it aborts while listing or reading a `type`, and
\* otherwise the lines of the batteries whose capacity and status were read
\* before the failed read: all of them when energy_now or power_now fails.
C6_OnlyBatteryLinesBeforeAbort ==
    pc = "aborted" =>
        /\ \A j \in 1..Len(stdout) : stdout[j].tag = "battery"
        /\ Len(stdout) =
              Len(SelectSeq(log, LAMBDA r : r.prop = "status" /\ r.res.ok))
        /\ (log = <<>> \/ log[Len(log)].prop = "type") => stdout = <<>>
        /\ (log # <<>> /\ log[Len(log)].prop \in {"energy_now", "power_now"}) =>
              Len(stdout) = Len(batteries)

C6_Witness ==
    /\ pc = "aborted"
    /\ Len(stdout) = 2
    /\ log[Len(log)].prop = "energy_now"

\* C8: with no battery found the run does not print the summary line
\* "Estimated runtime (all batteries): 0h0m".
C8_NoBatteriesIsNotZeroTime ==
    (pc = "done" /\ batteries = <<>>) =>
        LastLine.text # "Estimated runtime (all batteries): 0h0m"

\* the shape of the log: the read at position i of a run over the listing
\* and the batteries
C10_Expected(i) ==
    LET L == Len(listing)
        B == Len(batteries)
    IN  IF i <= L THEN [entry |-> listing[i], prop |-> "type", out |-> 0]
        ELSE IF i <= L + 2 * B
        THEN [entry |-> batteries[(i - L + 1) \div 2],
              prop |-> IF (i - L) % 2 = 1 THEN "capacity" ELSE "status",
              out |-> (i - L + 1) \div 2 - 1]
        ELSE IF i <= L + 3 * B
        THEN [entry |-> batteries[i - L - 2 * B], prop |-> "energy_now", out |-> B]
        ELSE [entry |-> batteries[i - L - 3 * B], prop |-> "power_now", out |-> B]

C10_Phases ==
    /\ Len(log) <= Len(listing) + 4 * Len(batteries)
    /\ \A i \in 1..Len(log) :
          /\ log[i].entry = C10_Expected(i).entry
          /\ log[i].prop = C10_Expected(i).prop
          /\ log[i].out = C10_Expected(i).out
    /\ Len(log) >= Len(listing) /\ pc \notin {"start", "filter", "aborted"}
          => batteries = Classified
    /\ (log # <<>> /\ log[Len(log)].prop = "type" /\ ~log[Len(log)].res.ok)
          => (pc = "aborted" /\ stdout = <<>>)
    /\ \A j \in 1..Len(stdout) :
          stdout[j].tag = "summary" =>
              (j = Len(batteries) + 1
               /\ Len(log) = Len(listing) + 4 * Len(batteries))

\* a step that reads, reads the file as it is at that step
C10_Fresh ==
    Len(log') = Len(log) + 1 =>
        LET r == log'[Len(log')]
        IN  /\ r.file = fs[r.entry][r.prop]
            /\ r.at = changes
            /\ SubSeq(log', 1, Len(log)) = log
            /\ (r.prop \in {"energy_now", "power_now"} /\ r.res.ok) =>
                   r.res.val = LiteralValue(TrailTrimmed(fs[r.entry][r.prop].data))

\* C10: the run reads the `type` of every listed entry, in the order of the
\* listing, before it writes anything; then for each battery its capacity,
\* its status, and writes its line; then every energy_now; then every
\* power_now; then it writes the summary.  The batteries are those the
\* `type` reads classified and stay so, and every read is of the file as it
\* is when it is read.
C10_StrictPhasesFreshReads == [](C10_Phases) /\ [][C10_Fresh]_vars

\* a battery's energy_now and power_now were read from different file states
C10_Witness ==
    /\ pc = "done"
    /\ \E i, j \in 1..Len(log) :
          /\ log[i].entry = log[j].entry
          /\ log[i].prop = "energy_now" /\ log[j].prop = "power_now"
          /\ log[i].at # log[j].at
          /\ log[j].file # InitialFiles[log[j].entry]["power_now"]

====
